---- MODULE Spec2Model ----
(***************************************************************************)
(* The two-pass document pipeline of main.py: pass 1 (compute_hashes)      *)
(* builds the Fingerprint Store, pass 2 streams every document through the *)
(* fixed chain of stages built in main.  ManualMinifier and the wiring of   *)
(* main are translated from main.py; the stages of the cc_net package      *)
(* (jsonql, dedup, perplexity, split_by_lang) are not part of main.py and  *)
(* are modelled from their description in the specification.               *)
(***************************************************************************)
EXTENDS Integers, Sequences, FiniteSets, TLC

VARIABLES
    args,       \* module-level namespace of parsed arguments (main.py:114)
    fs,         \* file system: path -> content (NoFile when absent)
    pc,         \* position of the program
    p1i,        \* pass 1: index of the next document to fingerprint
    collected,  \* pass 1: fingerprints collected in memory, in stream order
    i,          \* pass 2: index of the document being processed
    k,          \* pass 2: index in pipeline of the next stage to run
    cur,        \* pass 2: the document in flight
    seen,       \* pass 2: the duplicate remover's "already emitted" set
    loaded,     \* pass 2: the Fingerprint Store as loaded by the remover
    calls,      \* history: per document, the stages invoked on it, in order
    droppedAt,  \* history: per document, the stage that dropped it
    outIdx,     \* history: input positions of the documents written
    mdoc,       \* projector study: the document handed to ManualMinifier.do
    mres,       \* projector study: do(mdoc)
    mres2,      \* projector study: do(do(mdoc))
    params,     \* the arguments passed to main by its caller (main.py:45-52)
    argsBound,  \* whether the module global args is bound (main.py:114)
    runB,       \* a second run of main in the same process: position, arguments
    writer,     \* history: the run that last wrote the Fingerprint Store
    loadedBy    \* history: the run whose store this run's remover loaded

vars == <<args, fs, pc, p1i, collected, i, k, cur, seen, loaded, calls,
          droppedAt, outIdx, mdoc, mres, mres2, params, argsBound, runB,
          writer, loadedBy>>

runVars == <<params, argsBound, runB, writer, loadedBy>>

pipeVars == <<args, fs, pc, p1i, collected, i, k, cur, seen, loaded, calls,
              droppedAt, outIdx, runVars>>

projVars == <<mdoc, mres, mres2>>

\* ---------------------------------------------------------------- bounds
MaxDocs == 2      \* longest input stream
MaxLen == 2       \* longest raw_content of the enumerated documents

\* ------------------------------------------------------------- constants
DefaultMinLen == 300

\* ------------------------------------------------------------ documents
\* Python's None: the value a stage returns to drop a document.
None == [none |-> TRUE]

\* A value that stands for "not computed yet" in the projector study.
Pending == [pending |-> TRUE]

\* A file that does not exist, and a file holding data.
NoFile == [exists |-> FALSE, data |-> <<>>]

File(d) == [exists |-> TRUE, data |-> d]

EmptyDoc == <<>>

IsNone(x) == "none" \in DOMAIN x

Has(doc, f) == f \in DOMAIN doc

\* doc[f] = v on a dict
Put(doc, f, v) == [g \in (DOMAIN doc) \cup {f} |-> IF g = f THEN v ELSE doc[g]]

Rep(c, n) == [j \in 1..n |-> c]

Chars == {"A", "a", "B"}

Texts == {Rep(c, n) : c \in Chars, n \in 0..MaxLen}

\* ------------------------------------------------------- ManualMinifier
\* Variant: "url" is missing from the allow-list.
fields_to_keep_no_url ==
    {"raw_content", "digest", "source_domain", "title",
     "date_download", "bucket", "language_score", "length", "nlines",
     "original_length", "original_nlines", "perplexity", "language"}

\* self.fields_to_keep, set in ManualMinifier.__init__
fields_to_keep ==
    {"url", "raw_content", "digest", "source_domain", "title",
     "date_download", "bucket", "language_score", "length", "nlines",
     "original_length", "original_nlines", "perplexity", "language"}

\* "if not doc" is true of None and of the empty dict.
Falsy(doc) == IsNone(doc) \/ DOMAIN doc = {}

\* Variant: the document is returned with all its fields.
do_no_filter(doc) == IF Falsy(doc) THEN None ELSE doc

\* ManualMinifier.do
do(doc) ==
    IF Falsy(doc) THEN None
    ELSE [f \in (DOMAIN doc) \cap fields_to_keep |-> doc[f]]

\* --------------------------------------------- stages of the cc_net package
Lower(c) == IF c = "A" THEN "a" ELSE IF c = "B" THEN "b" ELSE c

\* The content-normalising fingerprint of a text: equal for texts that
\* are equal after normalisation.
Fingerprint(text) == [j \in 1..Len(text) |-> Lower(text[j])]

\* perplexity.RemoveSmall: drop when the field is missing or shorter than
\* min_len.
RemoveSmall(st, doc) ==
    IF ~Has(doc, st.field) THEN None
    ELSE IF Len(doc[st.field]) < st.min_len THEN None
    ELSE doc

\* Variant: the remover does not record the fingerprints it lets through.
DuplicatesRemover_forgetful(st, doc, s) ==
    IF ~Has(doc, st.field) THEN [doc |-> None, seen |-> s]
    ELSE IF Fingerprint(doc[st.field]) \in s THEN [doc |-> None, seen |-> s]
    ELSE [doc |-> doc, seen |-> s]

\* dedup.DuplicatesRemover: keep the first document of each fingerprint.
DuplicatesRemover(st, doc, s) ==
    IF ~Has(doc, st.field) THEN [doc |-> None, seen |-> s]
    ELSE IF Fingerprint(doc[st.field]) \in s THEN [doc |-> None, seen |-> s]
    ELSE [doc |-> doc, seen |-> s \cup {Fingerprint(doc[st.field])}]

\* The language-identification model: top-1 label of a text, "" when the
\* model returns no result.
Classify(text) ==
    IF text = <<>> THEN ""
    ELSE IF Lower(text[1]) = "a" THEN "tr" ELSE "en"

\* split_by_lang.Classifier: writes the top-1 label to out_field.
Classifier(st, doc) ==
    IF ~Has(doc, st.field) THEN None
    ELSE IF Classify(doc[st.field]) = "" THEN None
    ELSE Put(doc, st.out_field, Classify(doc[st.field]))

\* Variant: the predicate accepts any document that has a language.
IsTurkish_any(doc) == Has(doc, "language")

\* The predicate of main's jsonql.where: doc.get("language") == "tr".
IsTurkish(doc) == Has(doc, "language") /\ doc["language"] = "tr"

\* jsonql.where: drop when the predicate is false.
where(st, doc) == IF IsTurkish(doc) THEN doc ELSE None

\* The tokenizer model.
Tokenize(text, normalize) ==
    [j \in 1..Len(text) |-> IF normalize THEN Lower(text[j]) ELSE text[j]]

\* perplexity.SentencePiece: writes the tokenized text to output_field.
SentencePiece(st, doc) ==
    IF ~Has(doc, st.field) THEN None
    ELSE Put(doc, st.output_field, Tokenize(doc[st.field], st.normalize))

\* The language model: the perplexity of a token sequence.
Score(tokens) ==
    IF Len(tokens) > 2 THEN 50 ELSE IF Len(tokens) = 2 THEN 150 ELSE 250

\* perplexity.DocLM: writes the perplexity of the tokenized field.
DocLM(st, doc) ==
    IF ~Has(doc, st.field) THEN None
    ELSE Put(doc, st.output_field, Score(doc[st.field]))

\* The bucket of a perplexity under the ordered thresholds of a language.
Label(cut, ppl) ==
    IF ppl <= cut[1] THEN "head" ELSE IF ppl <= cut[2] THEN "middle" ELSE "tail"

\* perplexity.PerplexityBucket: writes the bucket label; a document
\* whose language has no entry in the cutoff table is dropped.
PerplexityBucket(cutoffs, doc) ==
    IF ~Has(doc, "language") \/ ~Has(doc, "perplexity") THEN None
    ELSE IF doc["language"] \notin DOMAIN cutoffs THEN None
    ELSE Put(doc, "bucket", Label(cutoffs[doc["language"]], doc["perplexity"]))

\* ------------------------------------------------------------------ main
\* Path.with_suffix
with_suffix(path, ext) == [stem |-> path.stem, ext |-> ext]

\* hashes_file of main
hashes_file == with_suffix(args.file, "hashes")

\* Variant: the collector is configured on another field.
hash_collector_other_field ==
    [name |-> "HashesCollector", field |-> "title", output |-> hashes_file]

\* hash_collector of compute_hashes, called with (args.file, hashes_file).
hash_collector ==
    [name |-> "HashesCollector", field |-> "raw_content",
     output |-> hashes_file]

\* A path below a directory: lm_dir / name
Join(dir, name) == <<dir, name>>

\* The stages main configures, by name.
StageReader == [name |-> "JsonReader"]

StageRemoveSmall(min_len) ==
    [name |-> "RemoveSmall", field |-> "raw_content", min_len |-> min_len]

StageDuplicatesRemover ==
    [name |-> "DuplicatesRemover", field |-> "raw_content",
     hashes_files |-> <<hashes_file>>]

StageClassifier ==
    [name |-> "Classifier", model |-> args.lang_id_model,
     field |-> "raw_content", out_field |-> "language", top |-> 1]

StageWhere == [name |-> "where"]

StageSentencePiece ==
    [name |-> "SentencePiece", model |-> Join(args.lm_dir, "tr.sp.model"),
     field |-> "raw_content", output_field |-> "tokenized",
     normalize |-> TRUE]

StageDocLM ==
    [name |-> "DocLM", models |-> Join(args.lm_dir, "tr.arpa.bin"),
     field |-> "tokenized", output_field |-> "perplexity",
     normalize |-> FALSE]

StagePerplexityBucket ==
    [name |-> "PerplexityBucket", cutoff_csv |-> args.cutoff_csv]

StageManualMinifier == [name |-> "ManualMinifier"]

\* Variant: the duplicate remover is left out of the list.
pipeline_no_dedup ==
    << StageReader, StageRemoveSmall(args.min_len), StageClassifier,
       StageWhere, StageSentencePiece, StageDocLM, StagePerplexityBucket,
       StageManualMinifier >>

\* Variant: the duplicate remover is listed before the length filter.
pipeline_dedup_first ==
    << StageReader, StageDuplicatesRemover, StageRemoveSmall(args.min_len),
       StageClassifier, StageWhere, StageSentencePiece, StageDocLM,
       StagePerplexityBucket, StageManualMinifier >>

\* Variant: the length filter is configured one above the argument.
pipeline_min_len_off ==
    << StageReader, StageRemoveSmall(args.min_len + 1),
       StageDuplicatesRemover, StageClassifier, StageWhere,
       StageSentencePiece, StageDocLM, StagePerplexityBucket,
       StageManualMinifier >>

\* Variant: the tokenizer is listed before the classifier and the language
\* filter.
pipeline_tokenize_early ==
    << StageReader, StageRemoveSmall(args.min_len), StageDuplicatesRemover,
       StageSentencePiece, StageClassifier, StageWhere, StageDocLM,
       StagePerplexityBucket, StageManualMinifier >>

\* The list pipeline built by main, in the order main lists the stages.
pipeline ==
    << StageReader, StageRemoveSmall(args.min_len), StageDuplicatesRemover,
       StageClassifier, StageWhere, StageSentencePiece, StageDocLM,
       StagePerplexityBucket, StageManualMinifier >>

NStages == Len(pipeline)

\* One stage applied to a document: the document it returns (None for a
\* drop) and the duplicate remover's set afterwards.
Process(st, doc, s) ==
    CASE st.name = "RemoveSmall" -> [doc |-> RemoveSmall(st, doc), seen |-> s]
      [] st.name = "DuplicatesRemover" -> DuplicatesRemover(st, doc, s)
      [] st.name = "Classifier" -> [doc |-> Classifier(st, doc), seen |-> s]
      [] st.name = "where" -> [doc |-> where(st, doc), seen |-> s]
      [] st.name = "SentencePiece" -> [doc |-> SentencePiece(st, doc), seen |-> s]
      [] st.name = "DocLM" -> [doc |-> DocLM(st, doc), seen |-> s]
      [] st.name = "PerplexityBucket" ->
            [doc |-> PerplexityBucket(fs[st.cutoff_csv].data, doc), seen |-> s]
      [] st.name = "ManualMinifier" -> [doc |-> do(doc), seen |-> s]

\* ---------------------------------------------------------------- inputs
InFile == [stem |-> "corpus", ext |-> "json"]
OutFile == [stem |-> "out", ext |-> "json"]
CutoffFile == [stem |-> "cutoff", ext |-> "csv"]
HashesFile == [stem |-> "corpus", ext |-> "hashes"]

Paths == {InFile, OutFile, CutoffFile, HashesFile}

\* A record of the corpus with a text body, a pass-through field, a field
\* outside the allow-list and a language label from an earlier tool.
TextDoc(t) == [raw_content |-> t, url |-> "u", junk |-> "j", language |-> "xx"]

NoContentDoc == [url |-> "u", junk |-> "j"]

Universe == {TextDoc(t) : t \in Texts} \cup {NoContentDoc, EmptyDoc}

\* The three documents of the end-to-end scenario.
ScenarioStream ==
    << TextDoc(Rep("A", 500)), TextDoc(Rep("A", 500)), TextDoc(Rep("B", 10)) >>

Streams ==
    UNION {[1..n -> Universe] : n \in 0..MaxDocs} \cup {ScenarioStream}

MinLens == (0..MaxLen) \cup {DefaultMinLen}

\* Cutoff tables: per language, the thresholds of "head" and "middle".
CutoffTables == {[l \in {"tr"} |-> <<100, 200>>], [l \in {"en"} |-> <<100, 200>>]}

Input == fs[args.file].data

NDocs == Len(Input)

\* ------------------------------------------------------------------ Init
\* The state after parser.parse_args(): the namespace args is set, the
\* input corpus and the cutoff table are on disk, nothing else is.
InitPipe ==
    /\ \E m \in MinLens :
         args = [file |-> InFile, output |-> OutFile, min_len |-> m,
                 lang_id_model |-> "lid.bin", lm_dir |-> "lm",
                 cutoff_csv |-> CutoffFile]
    /\ \E stream \in Streams, tab \in CutoffTables :
         fs = [p \in Paths |->
                 IF p = InFile THEN File(stream)
                 ELSE IF p = CutoffFile THEN File(tab)
                 ELSE NoFile]
    /\ pc = "parsed"
    /\ p1i = 1
    /\ collected = <<>>
    /\ i = 1
    /\ k = 1
    /\ cur = None
    /\ seen = {}
    /\ loaded = <<>>
    /\ calls = [d \in 1..NDocs |-> <<>>]
    /\ droppedAt = [d \in 1..NDocs |-> ""]
    /\ outIdx = <<>>

\* main.py run as a script: args is bound and main gets vars(args); there
\* is no second run.
ScriptCall ==
    /\ argsBound = TRUE
    /\ params = args
    /\ runB = [pc |-> "none", params |-> args]
    /\ writer = "none"
    /\ loadedBy = "none"

Init ==
    /\ InitPipe
    /\ ScriptCall
    /\ mdoc = None
    /\ mres = Pending
    /\ mres2 = Pending

\* --------------------------------------------------------------- actions
\* main(**vars(args)): main starts, reads the global args and calls
\* compute_hashes.
CallMain ==
    /\ pc = "parsed"
    /\ argsBound
    /\ pc' = "pass1"
    /\ UNCHANGED <<mdoc, mres, mres2, args, fs, p1i, collected, i, k, cur, seen, loaded, calls,
                   droppedAt, outIdx>>
    /\ UNCHANGED runVars

\* Pass 1, one document: the collector fingerprints raw_content, and
\* skips a document without it.
P1Collect ==
    /\ pc = "pass1"
    /\ p1i <= NDocs
    /\ collected' =
         IF Has(Input[p1i], hash_collector.field)
         THEN Append(collected, Fingerprint(Input[p1i][hash_collector.field]))
         ELSE collected
    /\ p1i' = p1i + 1
    /\ UNCHANGED <<mdoc, mres, mres2, args, fs, pc, i, k, cur, seen, loaded, calls, droppedAt,
                   outIdx>>
    /\ UNCHANGED runVars

\* Pass 1 ends: the store is written as a unit and compute_hashes returns.
P1Close ==
    /\ pc = "pass1"
    /\ p1i > NDocs
    /\ fs' = [fs EXCEPT ![hash_collector.output] = File(collected)]
    /\ pc' = "setup"
    /\ UNCHANGED <<mdoc, mres, mres2, args, p1i, collected, i, k, cur, seen, loaded, calls,
                   droppedAt, outIdx>>
    /\ writer' = "A"
    /\ UNCHANGED <<params, argsBound, runB, loadedBy>>

\* Variant: the failure of pass 1 is swallowed and main goes on.
P1Fail_swallowed ==
    /\ pc = "pass1"
    /\ p1i = 1 \/ p1i > NDocs
    /\ pc' = "setup"
    /\ UNCHANGED <<mdoc, mres, mres2, args, fs, p1i, collected, i, k, cur,
                   seen, loaded, calls, droppedAt, outIdx>>
    /\ UNCHANGED runVars

\* Pass 1 fails (the input cannot be read or the store cannot be
\* written): the exception leaves compute_hashes and main.
P1Fail ==
    /\ pc = "pass1"
    /\ p1i = 1 \/ p1i > NDocs
    /\ pc' = "failed"
    /\ UNCHANGED <<mdoc, mres, mres2, args, fs, p1i, collected, i, k, cur, seen, loaded, calls,
                   droppedAt, outIdx>>
    /\ UNCHANGED runVars

\* main builds the pipeline and run_pipes prepares it: the duplicate
\* remover loads the store, its set is empty, the output is opened.
P2Setup ==
    /\ pc = "setup"
    /\ loaded' = fs[hashes_file].data
    /\ seen' = {}
    /\ fs' = [fs EXCEPT ![args.output] = File(<<>>)]
    /\ i' = 1
    /\ k' = 1
    /\ pc' = "pass2"
    /\ UNCHANGED <<mdoc, mres, mres2, args, p1i, collected, cur, calls, droppedAt, outIdx>>
    /\ loadedBy' = writer
    /\ UNCHANGED <<params, argsBound, runB, writer>>

\* The one-time setup of a pass-2 stage fails (a model file is missing or
\* corrupt, the cutoff table is malformed): the exception leaves main.
\* main has returned from compute_hashes by then.
P2SetupFail ==
    /\ pc = "setup"
    /\ pc' = "setup_failed"
    /\ UNCHANGED <<mdoc, mres, mres2, args, fs, p1i, collected, i, k, cur,
                   seen, loaded, calls, droppedAt, outIdx>>
    /\ UNCHANGED runVars

\* JsonReader: the next record of the input becomes the document in flight.
P2Read ==
    /\ pc = "pass2"
    /\ k = 1
    /\ i <= NDocs
    /\ cur' = Input[i]
    /\ k' = 2
    /\ UNCHANGED <<mdoc, mres, mres2, args, fs, pc, p1i, collected, i, seen, loaded, calls,
                   droppedAt, outIdx>>
    /\ UNCHANGED runVars

\* Variant: a drop does not end the processing of the document.
P2Stage_continue ==
    /\ pc = "pass2"
    /\ k \in 2..NStages
    /\ LET st == pipeline[k]
           r == Process(st, cur, seen)
       IN /\ calls' = [calls EXCEPT ![i] = Append(@, st.name)]
          /\ seen' = r.seen
          /\ k' = k + 1
          /\ IF IsNone(r.doc)
             THEN /\ droppedAt' = [droppedAt EXCEPT ![i] = st.name]
                  /\ UNCHANGED cur
             ELSE /\ cur' = r.doc
                  /\ UNCHANGED droppedAt
    /\ UNCHANGED <<mdoc, mres, mres2, args, fs, pc, p1i, collected, i, loaded,
                   outIdx>>
    /\ UNCHANGED runVars

\* Variant: a stage may drop a document it would keep.
P2Stage_flaky ==
    /\ pc = "pass2"
    /\ k \in 2..NStages
    /\ \E lost \in BOOLEAN :
        LET st == pipeline[k]
            r == Process(st, cur, seen)
        IN /\ calls' = [calls EXCEPT ![i] = Append(@, st.name)]
           /\ seen' = r.seen
           /\ IF IsNone(r.doc) \/ lost
              THEN /\ droppedAt' = [droppedAt EXCEPT ![i] = st.name]
                   /\ cur' = None
                   /\ i' = i + 1
                   /\ k' = 1
              ELSE /\ cur' = r.doc
                   /\ k' = k + 1
                   /\ UNCHANGED <<droppedAt, i>>
    /\ UNCHANGED <<mdoc, mres, mres2, args, fs, pc, p1i, collected, loaded,
                   outIdx>>
    /\ UNCHANGED runVars

\* Variant: a document a stage cannot process ends the run.
P2Stage_abort ==
    /\ pc = "pass2"
    /\ k \in 2..NStages
    /\ LET st == pipeline[k]
           r == Process(st, cur, seen)
       IN /\ calls' = [calls EXCEPT ![i] = Append(@, st.name)]
          /\ seen' = r.seen
          /\ IF IsNone(r.doc)
             THEN /\ droppedAt' = [droppedAt EXCEPT ![i] = st.name]
                  /\ cur' = None
                  /\ pc' = "failed"
                  /\ UNCHANGED <<i, k>>
             ELSE /\ cur' = r.doc
                  /\ k' = k + 1
                  /\ UNCHANGED <<droppedAt, i, pc>>
    /\ UNCHANGED <<mdoc, mres, mres2, args, fs, p1i, collected, loaded, outIdx>>
    /\ UNCHANGED runVars

\* The next stage of the chain processes the document in flight; a drop
\* ends the processing of this document.
P2Stage ==
    /\ pc = "pass2"
    /\ k \in 2..NStages
    /\ LET st == pipeline[k]
           r == Process(st, cur, seen)
       IN /\ calls' = [calls EXCEPT ![i] = Append(@, st.name)]
          /\ seen' = r.seen
          /\ IF IsNone(r.doc)
             THEN /\ droppedAt' = [droppedAt EXCEPT ![i] = st.name]
                  /\ cur' = None
                  /\ i' = i + 1
                  /\ k' = 1
             ELSE /\ cur' = r.doc
                  /\ k' = k + 1
                  /\ UNCHANGED <<droppedAt, i>>
    /\ UNCHANGED <<mdoc, mres, mres2, args, fs, pc, p1i, collected, loaded, outIdx>>
    /\ UNCHANGED runVars

\* Variant: the writer puts each document in front of the earlier ones.
P2Write_prepend ==
    /\ pc = "pass2"
    /\ k = NStages + 1
    /\ fs' = [fs EXCEPT ![args.output] = File(<<cur>> \o @.data)]
    /\ outIdx' = <<i>> \o outIdx
    /\ cur' = None
    /\ i' = i + 1
    /\ k' = 1
    /\ UNCHANGED <<mdoc, mres, mres2, args, pc, p1i, collected, seen, loaded,
                   calls, droppedAt>>
    /\ UNCHANGED runVars

\* A document that survived every stage is appended to the output.
P2Write ==
    /\ pc = "pass2"
    /\ k = NStages + 1
    /\ fs' = [fs EXCEPT ![args.output] = File(Append(@.data, cur))]
    /\ outIdx' = Append(outIdx, i)
    /\ cur' = None
    /\ i' = i + 1
    /\ k' = 1
    /\ UNCHANGED <<mdoc, mres, mres2, args, pc, p1i, collected, seen, loaded, calls, droppedAt>>
    /\ UNCHANGED runVars

\* The input is exhausted: run_pipes and main return.
P2Finish ==
    /\ pc = "pass2"
    /\ k = 1
    /\ i > NDocs
    /\ pc' = "done"
    /\ UNCHANGED <<mdoc, mres, mres2, args, fs, p1i, collected, i, k, cur, seen, loaded, calls,
                   droppedAt, outIdx>>

    /\ UNCHANGED runVars
Next ==
    \/ CallMain
    \/ P1Collect
    \/ P1Close
    \/ P1Fail
    \/ P2Setup
    \/ P2SetupFail
    \/ P2Read
    \/ P2Stage
    \/ P2Write
    \/ P2Finish

Spec == Init /\ [][Next]_vars

Output == fs[args.output].data

\* ------------------------------------------- ManualMinifier.do on its own
\* The documents handed to do: every choice of fields among ProjFields,
\* the empty document and None.
ProjFields == {"url", "raw_content", "language", "bucket", "tokenized", "junk"}

ProjValue(f) ==
    IF f \in {"raw_content", "tokenized"} THEN <<"A">> ELSE "v"

ProjDocs == {[f \in F |-> ProjValue(f)] : F \in SUBSET ProjFields} \cup {None}

InitProj ==
    /\ args = [file |-> InFile, output |-> OutFile, min_len |-> DefaultMinLen,
               lang_id_model |-> "lid.bin", lm_dir |-> "lm",
               cutoff_csv |-> CutoffFile]
    /\ fs = [p \in Paths |-> NoFile]
    /\ pc = "idle"
    /\ p1i = 1
    /\ collected = <<>>
    /\ i = 1
    /\ k = 1
    /\ cur = None
    /\ seen = {}
    /\ loaded = <<>>
    /\ calls = <<>>
    /\ droppedAt = <<>>
    /\ outIdx = <<>>
    /\ ScriptCall
    /\ mdoc \in ProjDocs
    /\ mres = Pending
    /\ mres2 = Pending

\* do(doc) is called once.
ApplyDo ==
    /\ mres = Pending
    /\ mres' = do(mdoc)
    /\ UNCHANGED <<mdoc, mres2>>
    /\ UNCHANGED pipeVars

\* do is called on the result of the first call.
ApplyDoAgain ==
    /\ mres # Pending
    /\ mres2 = Pending
    /\ mres2' = do(mres)
    /\ UNCHANGED <<mdoc, mres>>
    /\ UNCHANGED pipeVars

NextProj ==
    \/ ApplyDo
    \/ ApplyDoAgain

SpecProj == InitProj /\ [][NextProj]_vars

\* ================================================================ claims
Range(sq) == {sq[n] : n \in 1..Len(sq)}

\* The fixed chain of pass 2 after the reader, as the claims name it.
Chain ==
    <<"RemoveSmall", "DuplicatesRemover", "Classifier", "where",
      "SentencePiece", "DocLM", "PerplexityBucket", "ManualMinifier">>

\* Document d has left pass 2 (dropped or written).
Processed(d) == pc \in {"pass2", "done"} /\ d < i

HasText(d) == Has(Input[d], "raw_content")

Text(d) == Input[d]["raw_content"]

SameFingerprint(d1, d2) ==
    /\ HasText(d1)
    /\ HasText(d2)
    /\ Fingerprint(Text(d1)) = Fingerprint(Text(d2))

\* d is the first document of the stream with its fingerprint.
FirstOfFingerprint(d) ==
    \A d0 \in 1..(d - 1) : ~SameFingerprint(d0, d)

C2_ShortCircuit ==
    \A d \in 1..NDocs :
        droppedAt[d] # ""
        => /\ \E n \in 1..Len(Chain) :
                /\ Chain[n] = droppedAt[d]
                /\ calls[d] = SubSeq(Chain, 1, n)
           /\ d \notin Range(outIdx)
           /\ i # d

\* The run is over, a document was dropped in the middle of the chain and a
\* later document went through the whole chain.
C2_Witness ==
    /\ pc = "done"
    /\ \E d \in 1..NDocs, e \in 1..NDocs :
        /\ d < e
        /\ droppedAt[d] = "where"
        /\ Len(calls[d]) = 4
        /\ e \in Range(outIdx)

\* C3: the documents written are, in order, documents of the input at
\* strictly increasing positions.
C3_OrderPreserved ==
    /\ pc \in {"pass2", "done"} => Len(Output) = Len(outIdx)
    /\ \A m \in 1..Len(outIdx), n \in 1..Len(outIdx) :
          m < n => outIdx[m] < outIdx[n]
    /\ pc \in {"pass2", "done"} =>
          \A n \in 1..Len(outIdx) :
              /\ outIdx[n] \in 1..NDocs
              /\ HasText(outIdx[n])
              /\ Has(Output[n], "raw_content")
              /\ Output[n]["raw_content"] = Text(outIdx[n])

\* Two different documents were written, in the order of the input.
C3_Witness ==
    /\ pc = "done"
    /\ Len(outIdx) = 2
    /\ Output[1] # Output[2]
    /\ Output[1]["raw_content"] = Text(1)

\* C4: every document written went through every stage of the chain exactly
\* once, in the chain's order.
C4_EveryStageOnce ==
    \A n \in 1..Len(outIdx) : calls[outIdx[n]] = Chain

\* A document was written after all eight stages ran on it.
C4_Witness ==
    /\ Len(outIdx) > 0
    /\ Len(calls[outIdx[1]]) = 8

\* The fingerprints of the whole stream, in stream order.
RECURSIVE FingerprintsOf(_)
FingerprintsOf(docs) ==
    IF docs = <<>> THEN <<>>
    ELSE LET rest == FingerprintsOf(SubSeq(docs, 1, Len(docs) - 1))
             last == docs[Len(docs)]
         IN IF Has(last, "raw_content")
            THEN Append(rest, Fingerprint(last["raw_content"]))
            ELSE rest

\* Pass 2 has begun: a document was read, a stage ran or the output exists.
Pass2Begun ==
    \/ pc \in {"pass2", "done"}
    \/ ~IsNone(cur)
    \/ \E d \in 1..NDocs : calls[d] # <<>>
    \/ fs[args.output].exists

\* C5: pass 2 begins only when the Fingerprint Store holds the fingerprints
\* of the whole stream, and after a failure of pass 1 pass 2 has not begun.
C5_PassOrdering ==
    /\ Pass2Begun => fs[hashes_file] = File(FingerprintsOf(Input))
    /\ pc = "failed" => ~Pass2Begun

\* Pass 2 runs a stage on a stream of two documents of which one has no
\* text, so that the store holds one fingerprint.
C5_Witness ==
    /\ pc = "pass2"
    /\ k = 3
    /\ Len(fs[hashes_file].data) = 1
    /\ NDocs = 2

\* C6: applying the projector to its own result changes nothing.
C6_ProjectionIdempotent ==
    mres2 # Pending => mres2 = mres

\* What do returned for mdoc is the projection of mdoc on the allow-list,
\* or None exactly when mdoc is empty or None.
ProjectionOf(doc, res) ==
    /\ IsNone(res) <=> (IsNone(doc) \/ DOMAIN doc = {})
    /\ ~IsNone(res) =>
          /\ DOMAIN res = (DOMAIN doc) \cap fields_to_keep
          /\ \A f \in DOMAIN res : res[f] = doc[f]

\* C7: do returns the projection of its argument on the allow-list with the
\* values unchanged, None exactly for an empty or absent argument, and
\* leaves its argument as it was.
C7_Projection ==
    /\ [](mres # Pending => ProjectionOf(mdoc, mres))
    /\ [][mdoc' = mdoc]_vars

\* do was applied to a document with fields inside and outside the
\* allow-list.
C7_Witness ==
    /\ DOMAIN mdoc = ProjFields
    /\ mres # Pending
    /\ DOMAIN mres = {"url", "raw_content", "language", "bucket"}

\* C8: a document is dropped by the length filter exactly when its
\* raw_content is shorter than min_len; a length equal to min_len is kept.
C8_ThresholdBoundary ==
    \A d \in 1..NDocs :
        (Processed(d) /\ HasText(d))
        => /\ Len(Text(d)) >= args.min_len => droppedAt[d] # "RemoveSmall"
           /\ Len(Text(d)) < args.min_len => droppedAt[d] = "RemoveSmall"

\* A document of length min_len passed the filter and one of length
\* min_len - 1 was dropped by it.
C8_Witness ==
    /\ pc = "done"
    /\ args.min_len > 0
    /\ \E d \in 1..NDocs, e \in 1..NDocs :
        /\ HasText(d)
        /\ HasText(e)
        /\ Len(Text(d)) = args.min_len
        /\ droppedAt[d] # "RemoveSmall"
        /\ Len(Text(e)) = args.min_len - 1
        /\ droppedAt[e] = "RemoveSmall"

\* C9: every document written has language "tr", a bucket, a perplexity and
\* only allow-listed fields, so no tokenized field; a document the model
\* does not classify as "tr" is not written.
C9_OutputShape ==
    pc \in {"pass2", "done"} =>
        /\ \A n \in 1..Len(Output) :
              /\ Has(Output[n], "language")
              /\ Output[n]["language"] = "tr"
              /\ Has(Output[n], "bucket")
              /\ Has(Output[n], "perplexity")
              /\ DOMAIN Output[n] \subseteq fields_to_keep
              /\ ~Has(Output[n], "tokenized")
        /\ \A d \in Range(outIdx) : Classify(Text(d)) = "tr"

\* A Turkish document was written and a document in another language, long
\* enough to pass the length filter, was not.
C9_Witness ==
    /\ pc = "done"
    /\ Len(Output) > 0
    /\ \E d \in 1..NDocs : droppedAt[d] = "where"

\* The configuration of the end-to-end scenario.
Scenario ==
    /\ Input = ScenarioStream
    /\ args.min_len = 300
    /\ "tr" \in DOMAIN fs[args.cutoff_csv].data

\* C10: in the scenario exactly the first document is written, with
\* language "tr", bucket "head" and only allow-listed fields; the second is
\* dropped by the duplicate remover and the third by the length filter.
C10_Scenario ==
    (Scenario /\ pc = "done")
    => /\ Len(Output) = 1
       /\ outIdx = <<1>>
       /\ Output[1]["raw_content"] = Rep("A", 500)
       /\ Output[1]["language"] = "tr"
       /\ Output[1]["perplexity"] = 50
       /\ Output[1]["bucket"] = "head"
       /\ DOMAIN Output[1] \subseteq fields_to_keep
       /\ droppedAt[2] = "DuplicatesRemover"
       /\ droppedAt[3] = "RemoveSmall"

\* The scenario has run to its end.
C10_Witness ==
    /\ Scenario
    /\ pc = "done"
    /\ Len(Output) = 1

\* C11: when the setup of a stage fails, no document has been processed by
\* any stage, the fingerprint collector included; and a stage of pass 2
\* runs on a document only after the setup of pass 2.
C11_SetupFailsEarly ==
    /\ pc = "setup_failed" =>
          /\ p1i = 1
          /\ collected = <<>>
          /\ \A d \in 1..NDocs : calls[d] = <<>>
    /\ (\E d \in 1..NDocs : calls[d] # <<>>) => pc \in {"pass2", "done"}

\* Every document has left pass 2, dropped or written.
AllProcessed ==
    \A d \in 1..NDocs :
        /\ calls[d] # <<>>
        /\ droppedAt[d] # "" \/ d \in Range(outIdx)

Running == pc \in {"parsed", "pass1", "setup", "pass2"}

\* C12: a run that ends normally has taken every document through pass 1
\* and pass 2, whatever was dropped or skipped on the way; a step of pass 2
\* never ends the run in failure, and a run that is not over can go on.
C12_PerDocumentNonFatal ==
    /\ [](pc = "done" => AllProcessed /\ p1i = NDocs + 1)
    /\ [](Running => ENABLED Next)
    /\ [][pc = "pass2" => pc' \in {"pass2", "done"}]_vars

\* The first document has no raw_content and was dropped, the second was
\* processed after it and written.
C12_Witness ==
    /\ pc = "done"
    /\ NDocs = 2
    /\ ~HasText(1)
    /\ Input[1] # EmptyDoc
    /\ droppedAt[1] = "RemoveSmall"
    /\ outIdx = <<2>>

\* ------------------------------------------- pass 2 as one function
\* The chain from stage n on, applied to one document with the duplicate
\* remover's set s: the document that comes out (None for a drop) and the
\* set afterwards.
RECURSIVE RunChain(_, _, _)
RunChain(doc, s, n) ==
    IF n > NStages THEN [doc |-> doc, seen |-> s]
    ELSE LET r == Process(pipeline[n], doc, s)
         IN IF IsNone(r.doc) THEN r ELSE RunChain(r.doc, r.seen, n + 1)

\* The documents written for a stream, after those in out.
RECURSIVE RunDocs(_, _, _)
RunDocs(docs, s, out) ==
    IF docs = <<>> THEN out
    ELSE LET r == RunChain(Head(docs), s, 2)
         IN RunDocs(Tail(docs), r.seen,
                    IF IsNone(r.doc) THEN out ELSE Append(out, r.doc))

\* What pass 2 writes for the input, the arguments and the cutoff table.
Pass2Result == RunDocs(Input, {}, <<>>)

KeptByRemover(d) ==
    /\ "DuplicatesRemover" \in Range(calls[d])
    /\ droppedAt[d] # "DuplicatesRemover"

\* C15: during pass 2 the remover's set is exactly the set of fingerprints
\* of the documents it has let through so far (so it is empty when pass 2
\* starts), and no step ever takes a fingerprint out of it.
C15_SeenSet ==
    /\ [](pc \in {"pass2", "done"} =>
            seen = {Fingerprint(Text(d)) :
                       d \in {e \in 1..NDocs : KeptByRemover(e)}})
    /\ [](pc = "pass2" /\ i = 1 /\ k <= 3 => seen = {})
    /\ [][seen \subseteq seen']_vars

\* The set holds one fingerprint after two documents went through the
\* remover: the second was a duplicate.
C15_Witness ==
    /\ pc = "done"
    /\ Cardinality(seen) = 1
    /\ NDocs = 2
    /\ KeptByRemover(1)
    /\ droppedAt[2] = "DuplicatesRemover"

\* C16: pass 1 runs no stage of the chain; while it runs the collected
\* fingerprints are those of the documents read so far that have a
\* raw_content, in stream order, and the store it writes holds one
\* fingerprint for each such document of the stream, whatever pass 2 does
\* with the document later.
C16_StoreCoversStream ==
    /\ pc = "pass1" =>
          /\ collected = FingerprintsOf(SubSeq(Input, 1, p1i - 1))
          /\ \A d \in 1..NDocs : calls[d] = <<>>
    /\ fs[hashes_file].exists =>
          /\ fs[hashes_file].data = FingerprintsOf(Input)
          /\ Len(fs[hashes_file].data) =
                Cardinality({d \in 1..NDocs : HasText(d)})

\* The store holds the fingerprint of a document that pass 2 dropped as too
\* short and nothing for a document without raw_content.
C16_Witness ==
    /\ pc = "done"
    /\ NDocs = 2
    /\ HasText(1)
    /\ droppedAt[1] = "RemoveSmall"
    /\ ~HasText(2)
    /\ fs[hashes_file].data = <<Fingerprint(Text(1))>>

\* The allow-listed fields that no stage of the chain writes.
PassThrough ==
    {"url", "source_domain", "title", "date_download", "length", "nlines",
     "original_length", "original_nlines"}

\* The stage called name is the next to run on the document in flight.
AboutToRun(name) ==
    /\ pc = "pass2"
    /\ k \in 2..NStages
    /\ pipeline[k].name = name

C18_StagePreconditions ==
    /\ AboutToRun("SentencePiece") =>
          /\ Has(cur, "raw_content")
          /\ Len(cur["raw_content"]) >= args.min_len
          /\ Has(cur, "language")
          /\ cur["language"] = "tr"
    /\ AboutToRun("DocLM") => Has(cur, "tokenized")
    /\ AboutToRun("PerplexityBucket") => Has(cur, "perplexity")
    /\ AboutToRun("ManualMinifier") => ~IsNone(cur) /\ DOMAIN cur # {}
    /\ \A d \in 1..NDocs : droppedAt[d] # "ManualMinifier"

\* A document is about to enter the projector, with the fields the earlier
\* stages wrote.
C18_Witness ==
    /\ AboutToRun("ManualMinifier")
    /\ Has(cur, "tokenized")
    /\ Has(cur, "perplexity")
    /\ Has(cur, "bucket")

\* C19: no two documents written have equal fingerprints.
C19_OutputUnique ==
    pc \in {"pass2", "done"} =>
        \A m \in 1..Len(Output), n \in 1..Len(Output) :
            m < n =>
                Fingerprint(Output[m]["raw_content"])
                    # Fingerprint(Output[n]["raw_content"])

\* Two documents were written.
C19_Witness ==
    /\ pc = "done"
    /\ Len(Output) = 2

\* ------------------------------------- main called by an importing caller
\* A second corpus and its output.
OtherFile == [stem |-> "other", ext |-> "json"]
OtherOut == [stem |-> "other_out", ext |-> "json"]

PathsTwo == Paths \cup {OtherFile, OtherOut}

\* The argument lists a caller passes to main: the values of the namespace
\* a, or the other corpus with the default minimum length.
CallArgs(a) ==
    {a, [a EXCEPT !.file = OtherFile, !.output = OtherOut,
                  !.min_len = DefaultMinLen]}

\* The streams of the two-run study: at most one document, or the scenario.
StreamsTwo == {st \in Streams : Len(st) <= 1} \cup {ScenarioStream}

\* main.py imported as a module: the global args is bound by the caller or
\* not at all (line 114 runs only in a script), both corpora are on disk,
\* and two calls of main are about to be made in the same process.
InitTwo ==
    /\ \E m \in MinLens :
         args = [file |-> InFile, output |-> OutFile, min_len |-> m,
                 lang_id_model |-> "lid.bin", lm_dir |-> "lm",
                 cutoff_csv |-> CutoffFile]
    /\ \E stream \in StreamsTwo :
         fs = [p \in PathsTwo |->
                 IF p = InFile THEN File(stream)
                 ELSE IF p = OtherFile THEN File(<<TextDoc(<<"B">>)>>)
                 ELSE IF p = CutoffFile THEN File([l \in {"tr"} |-> <<100, 200>>])
                 ELSE NoFile]
    /\ argsBound \in BOOLEAN
    /\ params \in CallArgs(args)
    /\ \E pb \in CallArgs(args) : runB = [pc |-> "none", params |-> pb]
    /\ writer = "none"
    /\ loadedBy = "none"
    /\ pc = "parsed"
    /\ p1i = 1
    /\ collected = <<>>
    /\ i = 1
    /\ k = 1
    /\ cur = None
    /\ seen = {}
    /\ loaded = <<>>
    /\ calls = [d \in 1..NDocs |-> <<>>]
    /\ droppedAt = [d \in 1..NDocs |-> ""]
    /\ outIdx = <<>>
    /\ mdoc = None
    /\ mres = Pending
    /\ mres2 = Pending

\* main(...) while the global args is not bound: line 54 raises NameError.
CallMainUnbound ==
    /\ pc = "parsed"
    /\ ~argsBound
    /\ pc' = "name_error"
    /\ UNCHANGED <<mdoc, mres, mres2, args, fs, p1i, collected, i, k, cur,
                   seen, loaded, calls, droppedAt, outIdx>>
    /\ UNCHANGED runVars

\* The second run calls main: it reads the same global args (line 54).
B_Call ==
    /\ runB.pc = "none"
    /\ runB' = [runB EXCEPT !.pc = IF argsBound THEN "pass1" ELSE "name_error"]
    /\ UNCHANGED <<mdoc, mres, mres2, args, fs, pc, p1i, collected, i, k, cur,
                   seen, loaded, calls, droppedAt, outIdx>>
    /\ UNCHANGED <<params, argsBound, writer, loadedBy>>

\* The second run's compute_hashes, as one step: it fingerprints args.file
\* and writes the store at hashes_file (lines 54-55).
B_Pass1 ==
    /\ runB.pc = "pass1"
    /\ fs' = [fs EXCEPT ![hash_collector.output] = File(FingerprintsOf(Input))]
    /\ writer' = "B"
    /\ runB' = [runB EXCEPT !.pc = "setup"]
    /\ UNCHANGED <<mdoc, mres, mres2, args, pc, p1i, collected, i, k, cur,
                   seen, loaded, calls, droppedAt, outIdx>>
    /\ UNCHANGED <<params, argsBound, loadedBy>>

\* The second run's pass 2, as one step with a remover set of its own,
\* taken while the first run is not inside its pass 2 (two runs writing
\* the output at once are left out): it writes args.output (line 87).
B_Pass2 ==
    /\ runB.pc = "setup"
    /\ pc # "pass2"
    /\ fs' = [fs EXCEPT ![args.output] = File(Pass2Result)]
    /\ runB' = [runB EXCEPT !.pc = "done"]
    /\ UNCHANGED <<mdoc, mres, mres2, args, pc, p1i, collected, i, k, cur,
                   seen, loaded, calls, droppedAt, outIdx>>
    /\ UNCHANGED <<params, argsBound, writer, loadedBy>>

NextTwo ==
    \/ CallMain
    \/ CallMainUnbound
    \/ P1Collect
    \/ P1Close
    \/ P1Fail
    \/ P2Setup
    \/ P2SetupFail
    \/ P2Read
    \/ P2Stage
    \/ P2Write
    \/ P2Finish
    \/ B_Call
    \/ B_Pass1
    \/ B_Pass2

SpecTwo == InitTwo /\ [][NextTwo]_vars

\* What main uses for its two passes (lines 54-87).
UsedConfig ==
    [file |-> args.file,
     store |-> hash_collector.output,
     output |-> args.output,
     min_len |-> pipeline[2].min_len,
     lang_id_model |-> pipeline[4].model,
     sp_model |-> pipeline[6].model,
     lm_model |-> pipeline[7].models,
     cutoff_csv |-> pipeline[8].cutoff_csv]

\* The same, read from an argument list a.
ConfigOf(a) ==
    [file |-> a.file,
     store |-> with_suffix(a.file, "hashes"),
     output |-> a.output,
     min_len |-> a.min_len,
     lang_id_model |-> a.lang_id_model,
     sp_model |-> Join(a.lm_dir, "tr.sp.model"),
     lm_model |-> Join(a.lm_dir, "tr.arpa.bin"),
     cutoff_csv |-> a.cutoff_csv]

\* C14: two runs interleaved in one process do not interfere: the store a
\* run's pass 2 loads is the one its own pass 1 wrote, a step of the other
\* run leaves this run's seen-set alone, and a run that ends normally has
\* written what it writes when executed alone.
C14_RunIndependence ==
    /\ [](pc \in {"pass2", "done"} => loadedBy = "A")
    /\ [](pc = "done" => fs[args.output] = File(Pass2Result))
    /\ [][runB' # runB => seen' = seen]_vars

\* C20: what main uses is determined by the arguments passed to it: once
\* main is called it has not failed on module-level state, and the input
\* path, store path, output path, minimum length, model paths and cutoff
\* table it uses are those of its arguments.
C20_ParameterDependence ==
    pc # "parsed" =>
        /\ pc # "name_error"
        /\ UsedConfig = ConfigOf(params)
====
